---------------------------- MODULE Spec2Model ----------------------------
(***************************************************************************)
(* A model of PVGPpy/read/ubc.py: the readers of the UBC 2D mesh, 3D mesh  *)
(* and OcTree formats and of their model files.                            *)
(*                                                                         *)
(* The module functions keep no state between calls; the only state a call *)
(* can change is the output grid `pdo` the caller may hand in.  A behaviour*)
(* is therefore one call: Init draws the caller's grid, the action draws   *)
(* the call's inputs (the file contents) and performs the whole call.      *)
(*                                                                         *)
(* Numbers read from files are modelled by integers; the 2D reader, which  *)
(* divides, works on fractions <<numerator, denominator>> in lowest terms. *)
(* Floating-point rounding is not modelled.                                *)
(***************************************************************************)
EXTENDS Integers, Sequences, FiniteSets, TLC

VARIABLES
    pc,     \* "idle" before the call, then the position inside the call
    pdo,    \* the caller's output grid object
    pre,    \* the caller's grid as it was before the call
    given,  \* TRUE when the caller passes `pdo`, FALSE for pdo=None
    call,   \* the call: its name and its inputs
    ret     \* the outcome: the exception raised ("none") and the value

vars == <<pc, pdo, pre, given, call, ret>>

(***************************************************************************)
(* Bounds of the model.                                                    *)
(***************************************************************************)
MaxN == 3          \* cells per axis of a 3D mesh: 1..MaxN
MaxTok == 3        \* tokens on one spacing line: 1..MaxTok
MaxCount == 2      \* the count of a compressed token: 1..MaxCount
MaxApply == 3      \* applications of the reordering that are followed
MaxMajor == 2      \* numpy major versions 0..MaxMajor
MaxMinor == 11     \* numpy minor versions 0..MaxMinor
MaxRest == 3       \* lines of a mesh file after its first: 0..MaxRest
MaxSeg == 2        \* segments per axis of a 2D mesh: 1..MaxSeg
MaxDisc == 2       \* subdivisions of a segment: 1..MaxDisc
Step == 3          \* control point k of an axis lies at origin + Step*k*(k+1)/2
MaxShape == 3      \* rows and columns of a 2D model file: 2..MaxShape

Min(a, b) == IF a < b THEN a ELSE b

(***************************************************************************)
(* The grid backend: a vtkRectilinearGrid as far as the readers use it.    *)
(***************************************************************************)
FreshGrid == [dims |-> <<0, 0, 0>>, x |-> <<>>, y |-> <<>>, z |-> <<>>,
              cells |-> <<>>]

GetExtent(g) == <<0, g.dims[1] - 1, 0, g.dims[2] - 1, 0, g.dims[3] - 1>>

SetDimensions(g, d) == [g EXCEPT !.dims = d]

SetCoordinates(g, xc, yc, zc) == [g EXCEPT !.x = xc, !.y = yc, !.z = zc]

\* vtkFieldData::AddArray: an array of the same name is replaced
AddArray(g, c) ==
    LET keep == SelectSeq(g.cells, LAMBDA a : a.name # c.name)
    IN  [g EXCEPT !.cells = Append(keep, c)]

(***************************************************************************)
(* numpy arrays of three axes: a shape and a value per 0-based index.      *)
(***************************************************************************)
Index(shape) ==
    (0 .. shape[1] - 1) \X (0 .. shape[2] - 1) \X (0 .. shape[3] - 1)

\* np.reshape(model, shape): row-major, the last axis varies fastest
Reshape(model, shape) ==
    [shape |-> shape,
     at |-> [idx \in Index(shape) |->
                model[(idx[1] * shape[2] + idx[2]) * shape[3] + idx[3] + 1]]]

Exchange(t, p, q) ==
    LET pick(m) == IF m = p + 1 THEN t[q + 1]
                   ELSE IF m = q + 1 THEN t[p + 1] ELSE t[m]
    IN  <<pick(1), pick(2), pick(3)>>

SwapAxesNone(A, p, q) == A

\* np.swapaxes(A, p, q)
SwapAxes(A, p, q) ==
    LET shape == Exchange(A.shape, p, q)
    IN  [shape |-> shape,
         at |-> [idx \in Index(shape) |-> A.at[Exchange(idx, p, q)]]]

\* ndarray.flatten(): row-major
Flatten(A) ==
    LET a == A.shape[1]
        b == A.shape[2]
        c == A.shape[3]
    IN  [p \in 1 .. a * b * c |->
            A.at[<<(p - 1) \div (b * c), ((p - 1) \div c) % b, (p - 1) % c>>]]

ReorderOneSwap(model, shape) == SwapAxes(Reshape(model, shape), 0, 2)

\* lines 98-100: reshape, swap axes 0,1, swap axes 0,2
Reorder(model, shape) ==
    SwapAxes(SwapAxes(Reshape(model, shape), 0, 1), 0, 2)

SizeCheckSwapped(ncells, len) ==
    IF ncells < len THEN "NotEnoughData"
    ELSE IF ncells > len THEN "MoreData"
    ELSE "none"

\* lines 90-93: the two size errors of placeModelOnMesh
SizeCheck(ncells, len) ==
    IF ncells < len THEN "MoreData"
    ELSE IF ncells > len THEN "NotEnoughData"
    ELSE "none"

\* placeModelOnMesh(mesh, model, dataNm): the exception and the mesh after
PlaceModelOnMesh(mesh, model, dataNm) ==
    LET ext == GetExtent(mesh)
        n1 == ext[2]
        n2 == ext[4]
        n3 == ext[6]
        exc == SizeCheck(n1 * n2 * n3, Len(model))
    IN  IF exc # "none"
        THEN [exc |-> exc, grid |-> mesh]
        ELSE [exc |-> "none",
              grid |-> AddArray(mesh,
                         [name |-> dataNm,
                          values |-> Flatten(Reorder(model, <<n1, n2, n3>>))])]


(***************************************************************************)
(* np.genfromtxt(FileName, dtype=str, delimiter='\n', comments='!'): the   *)
(* rows read, squeezed: a single row comes back as a 0-d array, which can  *)
(* be neither indexed nor iterated.                                        *)
(***************************************************************************)
Squeezed(rows) == [ndim |-> IF Len(rows) = 1 THEN 0 ELSE 1, rows |-> rows]

\* np.genfromtxt(..., max_rows=n): the first n rows, and no line after them
GenFromTxtRows(lines, n) == Squeezed(SubSeq(lines, 1, Min(n, Len(lines))))

\* np.genfromtxt without max_rows: every row of the file
GenFromTxt(lines) == Squeezed(lines)

(***************************************************************************)
(* UBC 3D mesh.  A spacing line is a list of tokens; a token is a plain    *)
(* width or a compressed run "<num>*<dist>".                               *)
(***************************************************************************)
Plain(w) == [star |-> FALSE, num |-> 0, dist |-> w]

Run(n, w) == [star |-> TRUE, num |-> n, dist |-> w]

\* del lst[i], i counted from 0
DelAt(lst, i) == SubSeq(lst, 1, i) \o SubSeq(lst, i + 2, Len(lst))

\* lst.insert(i, x), i counted from 0; past the end it appends
InsertAt(lst, i, x) ==
    LET k == Min(i, Len(lst))
    IN  SubSeq(lst, 1, k) \o <<x>> \o SubSeq(lst, k + 1, Len(lst))

RECURSIVE InsIdxUpTo(_, _)
InsIdxUpTo(spac_str, j) ==
    IF j = 0 THEN <<>>
    ELSE IF spac_str[j].star THEN Append(InsIdxUpTo(spac_str, j - 1), j - 1)
    ELSE InsIdxUpTo(spac_str, j - 1)

\* lines 330-333: the 0-based places of the compressed tokens, in order
InsIdx(spac_str) == InsIdxUpTo(spac_str, Len(spac_str))

RECURSIVE InsSpacUpTo(_, _)
InsSpacUpTo(spac_str, j) ==
    IF j = 0 THEN <<>>
    ELSE IF spac_str[j].star
    THEN Append(InsSpacUpTo(spac_str, j - 1),
                [k \in 1 .. spac_str[j].num |-> Plain(spac_str[j].dist)])
    ELSE InsSpacUpTo(spac_str, j - 1)

\* lines 334-336: [dist]*num for each compressed token, in order
InsSpac(spac_str) == InsSpacUpTo(spac_str, Len(spac_str))

\* lines 340-341: insert the run `ins` one value at a time from place `at`
RECURSIVE InsertRun(_, _, _, _)
InsertRun(lst, at, ins, k) ==
    IF k > Len(ins) THEN lst
    ELSE InsertRun(InsertAt(lst, at + k - 1, ins[k]), at, ins, k + 1)

\* lines 337-341: the loop over the compressed tokens, from the j-th on
RECURSIVE ExpandLoop(_, _, _, _)
ExpandLoop(lst, ins_idx, ins_spac, j) ==
    IF j > Len(ins_idx) THEN lst
    ELSE ExpandLoop(InsertRun(DelAt(lst, ins_idx[j]), ins_idx[j],
                              ins_spac[j], 1),
                    ins_idx, ins_spac, j + 1)

\* lines 328-341: the list spac_str after the two loops
ExpandSpacing(spac_str) ==
    ExpandLoop(spac_str, InsIdx(spac_str), InsSpac(spac_str), 1)

\* line 343: np.array(spac_str, dtype=float) raises on a token with a '*'
FloatsOk(lst) == \A j \in 1 .. Len(lst) : ~lst[j].star

Widths(lst) == [j \in 1 .. Len(lst) |-> lst[j].dist]

RECURSIVE CumFrom(_, _, _)
CumFrom(s, spac, j) ==
    IF j > Len(spac) THEN s
    ELSE CumFrom(Append(s, s[j] + spac[j]), spac, j + 1)

\* lines 348-357: s[0] = origin, s[j] = s[j-1] + spac[j-1]
CumCoords(o, spac) == CumFrom(<<o>>, spac, 1)

\* lines 323-359 for axis i (1..3): the exception, the list, the coordinates
Axis3D(file, i) ==
    LET lst == ExpandSpacing(file.spacing[i])
    IN  IF ~FloatsOk(lst)
        THEN [exc |-> "ValueError", spac_str |-> lst, s |-> <<>>]
        ELSE IF Len(lst) # (file.dim[i] + 1) - 1
        THEN [exc |-> "SpacingCount", spac_str |-> lst, s |-> <<>>]
        ELSE [exc |-> "none", spac_str |-> lst,
              s |-> CumCoords(file.origin[i], Widths(lst))]

\* ubcMesh3D(FileName, pdo) on grid g: the axes are handled in order and the
\* grid is set only after all three (lines 361-365)
Mesh3D(file, g) ==
    LET ax == [i \in 1 .. 3 |-> Axis3D(file, i)]
        bad == {i \in 1 .. 3 : ax[i].exc # "none"}
        first == CHOOSE i \in bad : \A m \in bad : i <= m
        reached == IF bad = {} THEN 3 ELSE first
        dim == <<file.dim[1] + 1, file.dim[2] + 1, file.dim[3] + 1>>
    IN  [exc |-> IF bad = {} THEN "none" ELSE ax[first].exc,
         axis |-> IF bad = {} THEN 0 ELSE first - 1,
         spac_str |-> [i \in 1 .. reached |-> ax[i].spac_str],
         grid |-> IF bad = {}
                  THEN SetCoordinates(SetDimensions(g, dim),
                                      ax[1].s, ax[2].s, ax[3].s)
                  ELSE g]

\* ubcModel3D on a file of one value per line: line 385 iterates over the
\* lines read at line 384, which raises on a 0-d array
Model3D(values) ==
    LET fileLines == GenFromTxt(values)
    IN  IF fileLines.ndim = 0
        THEN [exc |-> "TypeError", data |-> <<>>]
        ELSE [exc |-> "none", data |-> fileLines.rows]

\* ubcMeshData3D: mesh, then model, then placement; each may raise
MeshData3D(file, values, dataNm, g) ==
    LET mesh == Mesh3D(file, g)
        model == Model3D(values)
    IN  IF mesh.exc # "none"
        THEN [exc |-> mesh.exc, grid |-> mesh.grid]
        ELSE IF model.exc # "none"
        THEN [exc |-> model.exc, grid |-> mesh.grid]
        ELSE PlaceModelOnMesh(mesh.grid, model.data, dataNm)

(***************************************************************************)
(* Inputs.  Values carry their place so that a reordering shows: value     *)
(* off + p stands at place p of a model file, and the token at place p of  *)
(* a spacing line has width p.                                             *)
(***************************************************************************)
ModelOffsets == {0, 100}

TagModel(len, off) == [p \in 1 .. len |-> off + p]

Models == {TagModel(len, off) : len \in 0 .. MaxN * MaxN * MaxN + 1,
                                off \in ModelOffsets}

Origins == {<<0, 0, 0>>, <<-5, 10, 3>>}

LineOf(counts) ==
    [p \in 1 .. Len(counts) |->
        IF counts[p] = 0 THEN Plain(p) ELSE Run(counts[p], p)]

Lines ==
    UNION {{LineOf(counts) : counts \in [1 .. len -> 0 .. MaxCount]} :
           len \in 1 .. MaxTok}

\* "n*1": the usual line of a uniform axis
SimpleLine(n) == <<Run(n, 1)>>

\* a mesh file: axis `focus` carries `line` and declares nf cells, the two
\* other axes are uniform with no cells each
MkFile(focus, line, nf, no, o) ==
    [dim |-> [i \in 1 .. 3 |-> IF i = focus THEN nf ELSE no],
     origin |-> o,
     spacing |-> [i \in 1 .. 3 |-> IF i = focus THEN line ELSE SimpleLine(no)]]

SimpleFile(n1, n2, n3, o) ==
    [dim |-> <<n1, n2, n3>>, origin |-> o,
     spacing |-> <<SimpleLine(n1), SimpleLine(n2), SimpleLine(n3)>>]

MeshFiles3D ==
    {MkFile(focus, line, nf, no, o) :
        focus \in 1 .. 3, line \in Lines, nf \in 1 .. MaxN, no \in 1 .. MaxN,
        o \in Origins}

SimpleFiles3D ==
    {SimpleFile(n1, n2, n3, o) :
        n1 \in 1 .. MaxN, n2 \in 1 .. MaxN, n3 \in 1 .. MaxN, o \in Origins}

DataFiles3D ==
    SimpleFiles3D \cup
    {MkFile(1, line, nf, 1, <<0, 0, 0>>) : line \in Lines, nf \in 1 .. MaxN}

Cells3D(file) == file.dim[1] * file.dim[2] * file.dim[3]

\* the grids placeModelOnMesh is handed: the meshes ubcMesh3D builds, and a
\* grid as constructed
PlaceGrids ==
    {Mesh3D(f, FreshGrid).grid : f \in SimpleFiles3D} \cup {FreshGrid}

NoCall == [op |-> "none"]

NoRet == [exc |-> "none"]

(***************************************************************************)
(* placeModelOnMesh                                                        *)
(***************************************************************************)
InitPlace ==
    /\ pc = "idle"
    /\ pdo \in PlaceGrids
    /\ pre = pdo
    /\ given = TRUE
    /\ call = NoCall
    /\ ret = NoRet

placeModelOnMesh ==
    /\ pc = "idle"
    /\ \E model \in Models :
          LET r == PlaceModelOnMesh(pdo, model, "Data")
          IN  /\ call' = [op |-> "placeModelOnMesh", model |-> model,
                          dataNm |-> "Data"]
              /\ ret' = [exc |-> r.exc, val |-> r.grid]
              /\ pdo' = r.grid
    /\ pc' = "done"
    /\ UNCHANGED <<pre, given>>

NextPlace == placeModelOnMesh

SpecPlace == InitPlace /\ [][NextPlace]_vars

(***************************************************************************)
(* The reordering applied again and again, each time with the shape the    *)
(* application before left.                                                *)
(***************************************************************************)
Shapes == (1 .. MaxN) \X (1 .. MaxN) \X (1 .. MaxN)

InitReorder ==
    /\ pc = "idle"
    /\ pdo = FreshGrid
    /\ pre = pdo
    /\ given = FALSE
    /\ \E shape \in Shapes, off \in ModelOffsets :
          /\ call = [op |-> "reorder", shape |-> shape,
                     model |-> TagModel(shape[1] * shape[2] * shape[3], off)]
          /\ ret = [exc |-> "none", shape |-> shape, arr |-> call.model,
                    times |-> 0]

ApplyReorder ==
    /\ ret.times < MaxApply
    /\ LET A == Reorder(ret.arr, ret.shape)
       IN  ret' = [exc |-> "none", shape |-> A.shape, arr |-> Flatten(A),
                   times |-> ret.times + 1]
    /\ pc' = "applied"
    /\ UNCHANGED <<pdo, pre, given, call>>

NextReorder == ApplyReorder

SpecReorder == InitReorder /\ [][NextReorder]_vars

(***************************************************************************)
(* ubcMesh3D and ubcMeshData3D                                             *)
(***************************************************************************)
SampleGrid3D ==
    PlaceModelOnMesh(Mesh3D(SimpleFile(1, 1, 1, <<0, 0, 0>>), FreshGrid).grid,
                     TagModel(1, 0), "old").grid

InitMesh3D ==
    /\ pc = "idle"
    /\ \/ given = FALSE /\ pdo = FreshGrid
       \/ given = TRUE /\ pdo \in {FreshGrid, SampleGrid3D}
    /\ pre = pdo
    /\ call = NoCall
    /\ ret = NoRet

\* `if pdo is None: pdo = vtk.vtkRectilinearGrid()`
Target == IF given THEN pdo ELSE FreshGrid

ubcMesh3D ==
    /\ pc = "idle"
    /\ \E file \in MeshFiles3D :
          LET r == Mesh3D(file, Target)
          IN  /\ call' = [op |-> "ubcMesh3D", file |-> file]
              /\ ret' = [exc |-> r.exc, axis |-> r.axis,
                         spac_str |-> r.spac_str, val |-> r.grid]
              /\ pdo' = IF given THEN r.grid ELSE pdo
    /\ pc' = "done"
    /\ UNCHANGED <<pre, given>>

ubcMeshData3D ==
    /\ pc = "idle"
    /\ \E file \in DataFiles3D, off \in ModelOffsets, d \in {-1, 0, 1} :
          LET values == TagModel(Cells3D(file) + d, off)
              r == MeshData3D(file, values, "model", Target)
          IN  /\ call' = [op |-> "ubcMeshData3D", file |-> file,
                          model |-> values, dataNm |-> "model"]
              /\ ret' = [exc |-> r.exc, val |-> r.grid]
              /\ pdo' = IF given THEN r.grid ELSE pdo
    /\ pc' = "done"
    /\ UNCHANGED <<pre, given>>

NextMesh3D == ubcMesh3D \/ ubcMeshData3D

SpecMesh3D == InitMesh3D /\ [][NextMesh3D]_vars

(***************************************************************************)
(* ubcExtent3D.  A file is its list of lines, a line its list of tokens.   *)
(***************************************************************************)
\* line 52: the numpy versions taken to know max_rows
HasMaxRows(v) == v[1] >= 1 /\ v[2] >= 10

\* ubcExtent3D(FileName) under numpy version v: the rows read, and the
\* extent or the IndexError of `fileLines[0]` (line 59) on a 0-d array
Extent3D(lines, v) ==
    LET fileLines == IF HasMaxRows(v) THEN GenFromTxtRows(lines, 1)
                     ELSE GenFromTxt(lines)
        dim == SubSeq(fileLines.rows[1], 1, 3)
    IN  IF fileLines.ndim = 0
        THEN [exc |-> "IndexError", rowsRead |-> Len(fileLines.rows),
              val |-> <<>>]
        ELSE [exc |-> "none", rowsRead |-> Len(fileLines.rows),
              val |-> <<0, dim[1], 0, dim[2], 0, dim[3]>>]

RestLines(n) == [k \in 1 .. n |-> <<k>>]

ExtentFiles ==
    {<<<<n1, n2, n3>>>> \o RestLines(rest) :
        n1 \in 1 .. MaxN, n2 \in 1 .. MaxN, n3 \in 1 .. MaxN,
        rest \in 0 .. MaxRest}

NumpyVersions == (0 .. MaxMajor) \X (0 .. MaxMinor)

InitExtent ==
    /\ pc = "idle"
    /\ pdo = FreshGrid
    /\ pre = pdo
    /\ given = FALSE
    /\ call = NoCall
    /\ ret = NoRet

ubcExtent3D ==
    /\ pc = "idle"
    /\ \E lines \in ExtentFiles, v \in NumpyVersions :
          LET r == Extent3D(lines, v)
          IN  /\ call' = [op |-> "ubcExtent3D", file |-> lines, numpy |-> v]
              /\ ret' = [exc |-> r.exc, val |-> r.val,
                         rowsRead |-> r.rowsRead]
    /\ pc' = "done"
    /\ UNCHANGED <<pdo, pre, given>>

NextExtent == ubcExtent3D

SpecExtent == InitExtent /\ [][NextExtent]_vars

(***************************************************************************)
(* UBC 2D mesh.  Coordinates are fractions <<n, d>> in lowest terms, d > 0.*)
(***************************************************************************)
Abs(n) == IF n < 0 THEN -n ELSE n

RECURSIVE GCD(_, _)
GCD(a, b) == IF b = 0 THEN a ELSE GCD(b, a % b)

Frac(n, d) == LET g == GCD(Abs(n), d) IN <<n \div g, d \div g>>

RECURSIVE GenTupFrom(_, _, _, _, _)
GenTupFrom(fileLines, sft, n, i, acc) ==
    IF i >= n THEN acc
    ELSE LET ln == fileLines[i + sft + 1]
             pts0 == IF i = 0 THEN Append(acc.pts, ln[1]) ELSE acc.pts
             ln2 == IF i = 0 THEN <<ln[2], ln[3]>> ELSE ln
         IN  GenTupFrom(fileLines, sft, n, i + 1,
                        [pts |-> Append(pts0, ln2[1]),
                         disc |-> Append(acc.disc, ln2[2])])

\* lines 119-131: the control points and subdivisions of one block
GenTup(fileLines, sft, n) ==
    GenTupFrom(fileLines, sft, n, 0, [pts |-> <<>>, disc |-> <<>>])

\* _ubcMesh2D_part: lines 133-141
Mesh2DPart(fileLines) ==
    LET nx == fileLines[1][1]
        nz == fileLines[nx + 2][1]
        x == GenTup(fileLines, 1, nx)
        z == GenTup(fileLines, 2 + nx, nz)
    IN  [xpts |-> x.pts, xdisc |-> x.disc, zpts |-> z.pts, zdisc |-> z.disc]

RECURSIVE SumSeq(_)
SumSeq(q) == IF q = <<>> THEN 0 ELSE Head(q) + SumSeq(Tail(q))

SegmentCoordsNoStop(start, stop, num) ==
    [j \in 1 .. num - 1 |-> Frac(start * num + j * (stop - start), num)]

\* lines 199-206: start + j*w for j = 1..num-1 with w = (stop-start)/num,
\* then stop itself
SegmentCoords(start, stop, num) ==
    [j \in 1 .. num - 1 |-> Frac(start * num + j * (stop - start), num)]
        \o <<Frac(stop, 1)>>

RECURSIVE GenCoordsFrom(_, _, _, _)
GenCoordsFrom(pts, disc, i, c) ==
    IF i > Len(pts) - 1 THEN c
    ELSE GenCoordsFrom(pts, disc, i + 1,
                       c \o SegmentCoords(pts[i], pts[i + 1], disc[i]))

\* _genCoords: lines 196-208
GenCoords(pts, disc) == GenCoordsFrom(pts, disc, 1, <<Frac(pts[1], 1)>>)

\* lines 192-193 and 162-163: np.sum(disc) + 1
NodeCount(disc) == SumSeq(disc) + 1

\* ubcMesh2D on grid g
Mesh2D(fileLines, g) ==
    LET part == Mesh2DPart(fileLines)
        nx == NodeCount(part.xdisc)
        nz == NodeCount(part.zdisc)
    IN  [exc |-> "none",
         grid |-> SetCoordinates(SetDimensions(g, <<nx, 2, nz>>),
                                 GenCoords(part.xpts, part.xdisc),
                                 <<Frac(0, 1)>>,
                                 GenCoords(part.zpts, part.zdisc))]

\* ubcExtent2D: lines 160-165
Extent2D(fileLines) ==
    LET part == Mesh2DPart(fileLines)
        nx == NodeCount(part.xdisc)
        nz == NodeCount(part.zdisc)
    IN  <<0, nx, 0, 1, 0, nz>>

\* data.flatten(order='F') of a list of rows: column after column
FlattenF(data) ==
    LET rows == Len(data)
        cols == Len(data[1])
    IN  [p \in 1 .. rows * cols |->
            data[((p - 1) % rows) + 1][((p - 1) \div rows) + 1]]

\* ubcModel2D: lines 236-241; mfile = [dim, data]
Model2D(mfile) ==
    IF Len(mfile.data) # mfile.dim[2] /\ Len(mfile.data[1]) # mfile.dim[1]
    THEN [exc |-> "ModelFormat", data |-> <<>>]
    ELSE [exc |-> "none", data |-> FlattenF(mfile.data)]

\* ubcMeshData2D: mesh, then model, then placement; each may raise
MeshData2D(fileLines, mfile, dataNm, g) ==
    LET mesh == Mesh2D(fileLines, g)
        model == Model2D(mfile)
    IN  IF model.exc # "none"
        THEN [exc |-> model.exc, grid |-> mesh.grid]
        ELSE PlaceModelOnMesh(mesh.grid, model.data, dataNm)

ControlPoint(o, k) == o + Step * ((k * (k + 1)) \div 2)

\* the lines of one block: origin and first pair, then a pair per line
BlockLines(o, disc) ==
    [k \in 1 .. Len(disc) |->
        IF k = 1 THEN <<o, ControlPoint(o, 1), disc[1]>>
        ELSE <<ControlPoint(o, k), disc[k]>>]

MkLines2D(ox, xdisc, oz, zdisc) ==
    <<<<Len(xdisc)>>>> \o BlockLines(ox, xdisc)
        \o <<<<Len(zdisc)>>>> \o BlockLines(oz, zdisc)

Discs(maxSeg) ==
    UNION {[1 .. n -> 1 .. MaxDisc] : n \in 1 .. maxSeg}

Origins2D == {<<0, 0>>, <<-4, 10>>}

MeshFiles2D ==
    {MkLines2D(o[1], xd, o[2], zd) :
        xd \in Discs(MaxSeg), zd \in Discs(MaxSeg), o \in Origins2D}

DataFiles2D ==
    {MkLines2D(o[1], xd, o[2], zd) :
        xd \in Discs(MaxSeg), zd \in Discs(1), o \in Origins2D}

\* a model file of `rows` rows and `cols` columns that declares dim
MkModel2D(rows, cols, dim) ==
    [dim |-> dim,
     data |-> [r \in 1 .. rows |-> [c \in 1 .. cols |-> (r - 1) * cols + c]]]

ModelFiles2D ==
    {MkModel2D(rows, cols, <<cols + e[1], rows + e[2]>>) :
        rows \in 2 .. MaxShape, cols \in 2 .. MaxShape,
        e \in {<<0, 0>>, <<1, 0>>, <<1, 1>>}}

SampleGrid2D == Mesh2D(MkLines2D(0, <<1>>, 0, <<1>>), FreshGrid).grid

InitMesh2D ==
    /\ pc = "idle"
    /\ \/ given = FALSE /\ pdo = FreshGrid
       \/ given = TRUE /\ pdo \in {FreshGrid, SampleGrid2D}
    /\ pre = pdo
    /\ call = NoCall
    /\ ret = NoRet

ubcMesh2D ==
    /\ pc = "idle"
    /\ \E lines \in MeshFiles2D :
          LET r == Mesh2D(lines, Target)
          IN  /\ call' = [op |-> "ubcMesh2D", file |-> lines]
              /\ ret' = [exc |-> r.exc, val |-> r.grid]
              /\ pdo' = IF given THEN r.grid ELSE pdo
    /\ pc' = "done"
    /\ UNCHANGED <<pre, given>>

ubcExtent2D ==
    /\ pc = "idle"
    /\ \E lines \in MeshFiles2D :
          /\ call' = [op |-> "ubcExtent2D", file |-> lines]
          /\ ret' = [exc |-> "none", val |-> Extent2D(lines)]
    /\ pc' = "done"
    /\ UNCHANGED <<pdo, pre, given>>

ubcMeshData2D ==
    /\ pc = "idle"
    /\ \E lines \in DataFiles2D, mfile \in ModelFiles2D :
          LET r == MeshData2D(lines, mfile, "model", Target)
          IN  /\ call' = [op |-> "ubcMeshData2D", file |-> lines,
                          model |-> mfile, dataNm |-> "model"]
              /\ ret' = [exc |-> r.exc, val |-> r.grid]
              /\ pdo' = IF given THEN r.grid ELSE pdo
    /\ pc' = "done"
    /\ UNCHANGED <<pre, given>>

NextMesh2D == ubcMesh2D \/ ubcExtent2D \/ ubcMeshData2D

SpecMesh2D == InitMesh2D /\ [][NextMesh2D]_vars

(***************************************************************************)
(* ubcOcTree, statement by statement: what has been parsed so far is kept  *)
(* in ret.parsed.                                                          *)
(***************************************************************************)
FreshUGrid == [points |-> <<>>, cells |-> <<>>]

NotCubeFirstTwo(dim) == dim[1] # dim[2]

\* line 463: np.unique(dim).size > 1
NotCube(dim) == Cardinality({dim[i] : i \in 1 .. 3}) > 1

\* an OcTree file: header of core dims and padding, origin, core widths,
\* cell count, index table
OcTreeFiles ==
    {[header |-> <<n1, n2, n3, 0, 0, 0, 0, 0, 0>>, origin |-> o,
      widths |-> <<1, 1, 1>>, numCells |-> <<1>>,
      indArr |-> <<<<1, 1, 1, n1>>>>] :
        n1 \in 1 .. MaxN, n2 \in 1 .. MaxN, n3 \in 1 .. MaxN, o \in Origins}

InitOcTree ==
    /\ pc = "idle"
    /\ given \in BOOLEAN
    /\ pdo = FreshUGrid
    /\ pre = pdo
    /\ call = NoCall
    /\ ret = NoRet

\* lines 449-454: the default grid and the read of the file
OcRead ==
    /\ pc = "idle"
    /\ \E file \in OcTreeFiles :
          call' = [op |-> "ubcOcTree", file |-> file]
    /\ ret' = [exc |-> "none", parsed |-> {}]
    /\ pc' = "read"
    /\ UNCHANGED <<pdo, pre, given>>

\* lines 457-462
OcParseDim ==
    /\ pc = "read"
    /\ ret' = [exc |-> "none", parsed |-> ret.parsed \cup {"dim"},
               pad |-> SubSeq(call.file.header, 4, 6),
               dim |-> SubSeq(call.file.header, 1, 3)]
    /\ pc' = "dim"
    /\ UNCHANGED <<pdo, pre, given, call>>

\* lines 463-464
OcCheckCube ==
    /\ pc = "dim"
    /\ IF NotCube(ret.dim)
       THEN /\ ret' = [ret EXCEPT !.exc = "NotCube"]
            /\ pc' = "raised"
       ELSE /\ ret' = ret
            /\ pc' = "checked"
    /\ UNCHANGED <<pdo, pre, given, call>>

\* lines 469-473
OcParseOrigin ==
    /\ pc = "checked"
    /\ ret' = [ret EXCEPT !.parsed = @ \cup {"origin"}]
    /\ pc' = "origin"
    /\ UNCHANGED <<pdo, pre, given, call>>

\* lines 476-480
OcParseWidths ==
    /\ pc = "origin"
    /\ ret' = [ret EXCEPT !.parsed = @ \cup {"widths"}]
    /\ pc' = "widths"
    /\ UNCHANGED <<pdo, pre, given, call>>

\* lines 483-486
OcParseNumCells ==
    /\ pc = "widths"
    /\ ret' = [ret EXCEPT !.parsed = @ \cup {"numCells"}]
    /\ pc' = "numCells"
    /\ UNCHANGED <<pdo, pre, given, call>>

\* line 489
OcParseIndArr ==
    /\ pc = "numCells"
    /\ ret' = [ret EXCEPT !.parsed = @ \cup {"indArr"}]
    /\ pc' = "indArr"
    /\ UNCHANGED <<pdo, pre, given, call>>

\* lines 494-498: the grid is returned as it came
OcReturn ==
    /\ pc = "indArr"
    /\ ret' = [exc |-> "none", parsed |-> ret.parsed,
               val |-> IF given THEN pdo ELSE FreshUGrid]
    /\ pc' = "done"
    /\ UNCHANGED <<pdo, pre, given, call>>

NextOcTree ==
    \/ OcRead
    \/ OcParseDim
    \/ OcCheckCube
    \/ OcParseOrigin
    \/ OcParseWidths
    \/ OcParseNumCells
    \/ OcParseIndArr
    \/ OcReturn

SpecOcTree == InitOcTree /\ [][NextOcTree]_vars

(***************************************************************************)
(* Properties of placeModelOnMesh                                          *)
(***************************************************************************)
HasArray(g, name) == \E m \in 1 .. Len(g.cells) : g.cells[m].name = name

ArrayValues(g, name) ==
    g.cells[CHOOSE m \in 1 .. Len(g.cells) : g.cells[m].name = name].values

CellCount(g) == GetExtent(g)[2] * GetExtent(g)[4] * GetExtent(g)[6]

Placed == pc = "done" /\ call.op = "placeModelOnMesh" /\ ret.exc = "none"

\* C1 as stated: the value at file position (i,j,k), flat file index
\* (i*n2 + j)*n3 + k, is attached at flat cell index i + n1*j + n1*n2*k.
C1_AsStated ==
    Placed =>
        LET n1 == GetExtent(pre)[2]
            n2 == GetExtent(pre)[4]
            n3 == GetExtent(pre)[6]
            values == ArrayValues(pdo, call.dataNm)
        IN  \A i \in 0 .. n1 - 1, j \in 0 .. n2 - 1, k \in 0 .. n3 - 1 :
                values[i + n1 * j + n1 * n2 * k + 1]
                    = call.model[(i * n2 + j) * n3 + k + 1]

\* C1: placeModelOnMesh attaches at flat cell index i + n1*j + n1*n2*k (first
\* axis fastest) the value at flat file index (j*n1 + i)*n3 + k: in file order
\* the last axis varies fastest, then the first axis, then the second.
C1_FileToCellOrder ==
    Placed =>
        LET n1 == GetExtent(pre)[2]
            n2 == GetExtent(pre)[4]
            n3 == GetExtent(pre)[6]
            values == ArrayValues(pdo, call.dataNm)
        IN  /\ Len(values) = n1 * n2 * n3
            /\ \A i \in 0 .. n1 - 1, j \in 0 .. n2 - 1, k \in 0 .. n3 - 1 :
                 values[i + n1 * j + n1 * n2 * k + 1]
                     = call.model[(j * n1 + i) * n3 + k + 1]

C1_Witness ==
    /\ Placed
    /\ pre.dims = <<3, 4, 3>>
    /\ ArrayValues(pdo, "Data")[2] = call.model[3]

\* C3: placeModelOnMesh raises one error when the model has more values than
\* the mesh has cells and another when it has fewer, leaving the mesh as it
\* was, and attaches an array (of the model's length) only on an exact match.
C3_SizeMismatchRejected ==
    (pc = "done" /\ call.op = "placeModelOnMesh") =>
        LET cells == CellCount(pre)
            len == Len(call.model)
        IN  /\ len > cells => ret.exc = "MoreData" /\ pdo = pre
            /\ len < cells => ret.exc = "NotEnoughData" /\ pdo = pre
            /\ len = cells =>
                 /\ ret.exc = "none"
                 /\ HasArray(pdo, call.dataNm)
                 /\ Len(ArrayValues(pdo, call.dataNm)) = len
            /\ pdo # pre => len = cells

C3_Witness ==
    /\ pc = "done"
    /\ call.op = "placeModelOnMesh"
    /\ CellCount(pre) = 4
    /\ Len(call.model) = 3
    /\ ret.exc = "NotEnoughData"
    /\ pdo = pre

(***************************************************************************)
(* Properties of the reordering                                            *)
(***************************************************************************)
\* every value of `from` stands at exactly one place of `to`
IsRearrangement(to, from) ==
    /\ Len(to) = Len(from)
    /\ \A p \in 1 .. Len(from) :
          Cardinality({q \in 1 .. Len(to) : to[q] = from[p]}) = 1

\* C6 as stated: the reordering is a bijection on the index set and two
\* applications (reshape dims adjusted) return the original order.
C6_AsStated ==
    /\ ret.times >= 1 => IsRearrangement(ret.arr, call.model)
    /\ ret.times = 2 => ret.arr = call.model

\* C6: the reordering is a bijection on the index set 0..n1*n2*n3-1, and it
\* is undone by applying the same double axis swap two more times, each with
\* the reshape dims left by the application before: three applications (not
\* two) return the original order and the original shape.
C6_BijectionOfOrderThree ==
    /\ ret.times >= 1 => IsRearrangement(ret.arr, call.model)
    /\ ret.times = 1 =>
         ret.shape = <<call.shape[3], call.shape[1], call.shape[2]>>
    /\ ret.times = 3 => ret.arr = call.model /\ ret.shape = call.shape

C6_Witness ==
    /\ ret.times = 3
    /\ call.shape = <<2, 3, 2>>
    /\ ret.arr = call.model

(***************************************************************************)
(* Properties of ubcMesh3D and ubcMeshData3D                               *)
(***************************************************************************)
\* the expansion the format defines: every token in place, in order
RECURSIVE Decode(_)
Decode(line) ==
    IF line = <<>> THEN <<>>
    ELSE LET t == Head(line)
         IN  (IF t.star THEN [k \in 1 .. t.num |-> Plain(t.dist)]
              ELSE <<t>>) \o Decode(Tail(line))

\* C2: the expansion in ubcMesh3D replaces every compressed token by `count`
\* copies of `width` in place, keeping the order of all tokens, on every
\* spacing line.
C2_ExpansionInPlace ==
    (pc = "done" /\ call.op = "ubcMesh3D") =>
        \A i \in 1 .. Len(ret.spac_str) :
            ret.spac_str[i] = Decode(call.file.spacing[i])

WellFormed3D(file) ==
    \A i \in 1 .. 3 : Len(Decode(file.spacing[i])) = file.dim[i]

AxisOf(g, i) == IF i = 1 THEN g.x ELSE IF i = 2 THEN g.y ELSE g.z

\* C4: for every 3D mesh whose three spacing lines expand to n_i positive
\* widths, ubcMesh3D sets the dimensions (n1+1, n2+1, n3+1) and builds per
\* axis n_i + 1 coordinates starting at origin[i], each the one before plus
\* the width between them, strictly increasing.
C4_CoordinateAxes ==
    (pc = "done" /\ call.op = "ubcMesh3D" /\ WellFormed3D(call.file)) =>
        /\ ret.exc = "none"
        /\ ret.val.dims = <<call.file.dim[1] + 1, call.file.dim[2] + 1,
                            call.file.dim[3] + 1>>
        /\ \A i \in 1 .. 3 :
             LET s == AxisOf(ret.val, i)
                 w == Widths(Decode(call.file.spacing[i]))
             IN  /\ Len(s) = call.file.dim[i] + 1
                 /\ s[1] = call.file.origin[i]
                 /\ \A j \in 2 .. Len(s) :
                      s[j] = s[j - 1] + w[j - 1] /\ s[j] > s[j - 1]

\* C10: a combined mesh+model read (ubcMeshData3D, ubcMeshData2D) that fails
\* leaves the caller's grid as it was before the call: no dimensions,
\* coordinates or cell data set by the failed call.
C10_NoPartialGrid ==
    (/\ pc = "done"
     /\ call.op \in {"ubcMeshData3D", "ubcMeshData2D"}
     /\ given
     /\ ret.exc # "none") => pdo = pre

(***************************************************************************)
(* Properties of ubcExtent3D                                               *)
(***************************************************************************)
\* C5: ubcExtent3D reads only the first line of the mesh file, whatever the
\* version of numpy the version check inspects.
C5_ReadsFirstLineOnly ==
    (pc = "done" /\ call.op = "ubcExtent3D") => ret.rowsRead = 1

(***************************************************************************)
(* Properties of ubcMesh2D and ubcExtent2D                                 *)
(***************************************************************************)
\* 1-based place, in the coordinate sequence, of control point k (0-based)
PlaceOfPoint(disc, k) == 1 + SumSeq(SubSeq(disc, 1, k))

\* the fraction c equals start + j*(stop - start)/num
IsStep(c, start, stop, num, j) ==
    c[2] > 0 /\ c[1] * num = c[2] * (start * num + j * (stop - start))

AxisAsDeclared(coords, nodes, o, disc) ==
    /\ coords[1] = <<o, 1>>
    /\ Len(coords) = 1 + SumSeq(disc)
    /\ Len(coords) = nodes
    /\ \A k \in 0 .. Len(disc) :
          coords[PlaceOfPoint(disc, k)] = <<ControlPoint(o, k), 1>>
    /\ \A k \in 1 .. Len(disc) : \A j \in 0 .. disc[k] :
          IsStep(coords[PlaceOfPoint(disc, k - 1) + j],
                 ControlPoint(o, k - 1), ControlPoint(o, k), disc[k], j)

\* the subdivisions a 2D mesh file declares for the block that starts at
\* line `first` (1-based) and has n lines
DeclaredDisc(lines, first, n) ==
    [k \in 1 .. n |-> lines[first + k - 1][IF k = 1 THEN 3 ELSE 2]]

\* C7: for each axis of a 2D mesh, ubcMesh2D builds the coordinates that
\* start at the origin and divide every control-point segment into
\* `subdivisions` equal steps; every control point is in the sequence
\* exactly, the sequence has 1 + sum(subdivisions) elements, and that is the
\* node dimension set on the grid for the axis.
C7_SubdividedAxes ==
    (pc = "done" /\ call.op = "ubcMesh2D") =>
        LET lines == call.file
            nx == lines[1][1]
            nz == lines[nx + 2][1]
        IN  /\ ret.exc = "none"
            /\ AxisAsDeclared(ret.val.x, ret.val.dims[1], lines[2][1],
                              DeclaredDisc(lines, 2, nx))
            /\ AxisAsDeclared(ret.val.z, ret.val.dims[3], lines[nx + 3][1],
                              DeclaredDisc(lines, nx + 3, nz))

C7_Witness ==
    /\ pc = "done"
    /\ call.op = "ubcMesh2D"
    /\ call.file[1][1] = 2
    /\ DeclaredDisc(call.file, 2, 2) = <<2, 1>>
    /\ call.file[2][1] = -4
    /\ ret.val.x = <<<<-4, 1>>, <<-5, 2>>, <<-1, 1>>, <<5, 1>>>>
    /\ ret.val.dims[1] = 4

\* C8: ubcExtent2D returns the whole extent (0,n1-1, 0,n2-1, 0,n3-1) of the
\* grid ubcMesh2D builds from the same file, (n1,n2,n3) being the node
\* dimensions ubcMesh2D sets.
C8_ExtentOfMesh2D ==
    (pc = "done" /\ call.op = "ubcExtent2D") =>
        LET d == Mesh2D(call.file, FreshGrid).grid.dims
        IN  ret.val = <<0, d[1] - 1, 0, d[2] - 1, 0, d[3] - 1>>

(***************************************************************************)
(* Properties of ubcOcTree                                                 *)
(***************************************************************************)
CoreDimsEqual(file) ==
    file.header[1] = file.header[2] /\ file.header[2] = file.header[3]

\* C9: ubcOcTree fails on every header whose three core dimensions are not
\* all equal, before the origin, core widths, cell count or index table are
\* parsed and with the output grid untouched; with three equal core
\* dimensions the check never raises.
C9_CubeCheckFirst ==
    (call.op = "ubcOcTree" /\ pc \notin {"idle", "read", "dim"}) =>
        /\ ~CoreDimsEqual(call.file) =>
             /\ pc = "raised"
             /\ ret.exc = "NotCube"
             /\ ret.parsed = {"dim"}
             /\ pdo = pre
        /\ CoreDimsEqual(call.file) => pc # "raised" /\ ret.exc = "none"

C9_Witness ==
    /\ pc = "raised"
    /\ call.op = "ubcOcTree"
    /\ call.file.header[1] = 2
    /\ call.file.header[2] = 2
    /\ call.file.header[3] = 3
    /\ ret.parsed = {"dim"}
=============================================================================
